---------------------------- MODULE Spec2Model ----------------------------
(***************************************************************************)
(* FinanceApp: the entry ledger of the five App components of the          *)
(* repository (src/App.tsx and src/unnamed/part_000 .. part_003).          *)
(*                                                                         *)
(* Text is a sequence of one-character strings, so that trimming, digit    *)
(* stripping, separator replacement and number parsing are computed.       *)
(* A JavaScript number is an exact fraction [n, d] in lowest terms with    *)
(* d > 0; NaN is [n |-> 0, d |-> 0].  Rounding of IEEE doubles is not      *)
(* modelled.  A calendar date is [y, m, d] with m counted from 0 as        *)
(* Date.getMonth does.                                                     *)
(***************************************************************************)
EXTENDS Integers, Sequences, FiniteSets, TLC

(***************************************************************************)
(* Bounds of the model.                                                    *)
(***************************************************************************)
MaxEntries == 2     \* adds are taken while the sequence is shorter than this
MaxClock == 1       \* Date.now() takes the values ClockBase .. ClockBase + MaxClock
MaxShift == 1       \* changeMonth is taken while |months shifted| stays within this

(***************************************************************************)
(* Text.                                                                   *)
(***************************************************************************)
Digits == {"0", "1", "2", "3", "4", "5", "6", "7", "8", "9"}

DigitChars == <<"0", "1", "2", "3", "4", "5", "6", "7", "8", "9">>

DigitVal(c) == CHOOSE k \in 0..9 : DigitChars[k + 1] = c

RECURSIVE trimStart(_)
trimStart(s) ==
    IF s # <<>> /\ Head(s) = " " THEN trimStart(Tail(s)) ELSE s

RECURSIVE trimEnd(_)
trimEnd(s) ==
    IF s # <<>> /\ s[Len(s)] = " " THEN trimEnd(SubSeq(s, 1, Len(s) - 1)) ELSE s

\* String.prototype.trim
trim(s) == trimEnd(trimStart(s))

\* s.replace(/c/g, ""): every occurrence of the character removed
removeAll(s, c) == SelectSeq(s, LAMBDA x : x # c)

\* raw.replace(/\D/g, ""): only the digits kept
onlyDigits(s) == SelectSeq(s, LAMBDA x : x \in Digits)

\* TRUE iff pat occurs in s at position i
MatchAt(s, pat, i) ==
    /\ i + Len(pat) - 1 <= Len(s)
    /\ SubSeq(s, i, i + Len(pat) - 1) = pat

\* s.replace(pat, rep) with a string pattern: the FIRST occurrence only
replaceFirst(s, pat, rep) ==
    LET hits == {i \in 1..Len(s) : MatchAt(s, pat, i)}
    IN  IF hits = {} THEN s
        ELSE LET i == CHOOSE j \in hits : \A k \in hits : j <= k
             IN  SubSeq(s, 1, i - 1) \o rep \o SubSeq(s, i + Len(pat), Len(s))

(***************************************************************************)
(* Numbers.                                                                *)
(***************************************************************************)
NaN == [n |-> 0, d |-> 0]

isNaN(x) == x.d = 0

\* null read as a number: it counts as 0 in sums and comparisons and is
\* written back as null
NullNum == [n |-> 0, d |-> 1, null |-> TRUE]

isNull(x) == "null" \in DOMAIN x

Abs(k) == IF k < 0 THEN -k ELSE k

RECURSIVE GCD(_, _)
GCD(a, b) == IF b = 0 THEN a ELSE GCD(b, a % b)

\* the fraction n/d (d > 0) in lowest terms
Frac(n, d) ==
    LET g == GCD(Abs(n), d)
    IN  [n |-> n \div g, d |-> d \div g]

Int2Num(k) == [n |-> k, d |-> 1]

Add(x, y) ==
    IF isNaN(x) \/ isNaN(y) THEN NaN
    ELSE Frac(x.n * y.d + y.n * x.d, x.d * y.d)

Sub(x, y) ==
    IF isNaN(x) \/ isNaN(y) THEN NaN
    ELSE Frac(x.n * y.d - y.n * x.d, x.d * y.d)

\* x / k for an integer k > 0
DivInt(x, k) == IF isNaN(x) THEN NaN ELSE Frac(x.n, x.d * k)

\* x <= 0 and x > 0; every comparison with NaN is false
LeqZero(x) == ~isNaN(x) /\ x.n <= 0

GtZero(x) == ~isNaN(x) /\ x.n > 0

RECURSIVE Pow10(_)
Pow10(k) == IF k = 0 THEN 1 ELSE 10 * Pow10(k - 1)

\* value of a run of decimal digits
RECURSIVE DigitsVal(_)
DigitsVal(s) ==
    IF s = <<>> THEN 0
    ELSE 10 * DigitsVal(SubSeq(s, 1, Len(s) - 1)) + DigitVal(s[Len(s)])

\* length of the run of digits that starts at position i of s
RECURSIVE DigitRun(_, _)
DigitRun(s, i) ==
    IF i <= Len(s) /\ s[i] \in Digits THEN 1 + DigitRun(s, i + 1) ELSE 0

(***************************************************************************)
(* The longest prefix of s that is a decimal literal                       *)
(*     [+-] ( digits [ . [digits] ] | . digits )                           *)
(* (exponents, hexadecimal and Infinity need letters that no modelled      *)
(* input contains).  ok: such a prefix exists; len: its length.            *)
(***************************************************************************)
ScanDecimal(s) ==
    LET signed == s # <<>> /\ Head(s) \in {"+", "-"}
        p0     == IF signed THEN 2 ELSE 1
        il     == DigitRun(s, p0)
        p1     == p0 + il
        dot    == p1 <= Len(s) /\ s[p1] = "."
        fl     == IF dot THEN DigitRun(s, p1 + 1) ELSE 0
        useDot == dot /\ (il > 0 \/ fl > 0)
        mant   == DigitsVal(SubSeq(s, p0, p1 - 1) \o
                            (IF useDot THEN SubSeq(s, p1 + 1, p1 + fl) ELSE <<>>))
        sgn    == IF signed /\ Head(s) = "-" THEN -1 ELSE 1
    IN  [ok  |-> il > 0 \/ fl > 0,
         len |-> IF useDot THEN p1 + fl ELSE p1 - 1,
         val |-> Frac(sgn * mant, Pow10(IF useDot THEN fl ELSE 0))]

\* Number(s): the whole trimmed text must be a literal; "" is 0
Number(s) ==
    LET t == trim(s)
        r == ScanDecimal(t)
    IN  IF t = <<>> THEN Int2Num(0)
        ELSE IF r.ok /\ r.len = Len(t) THEN r.val ELSE NaN

\* parseFloat(s): the longest literal prefix after leading white space
parseFloat(s) ==
    LET r == ScanDecimal(trimStart(s))
    IN  IF r.ok THEN r.val ELSE NaN

\* parseInt(digits, 10) of a non-empty run of digits
parseInt(s) == DigitsVal(s)

(***************************************************************************)
(* value.toLocaleString("pt-BR", {minimumFractionDigits: 2,                *)
(* maximumFractionDigits: 2}): rounded to cents (half away from zero),     *)
(* integer part grouped in threes with ".", decimal separator ",".         *)
(***************************************************************************)
RECURSIVE IntDigits(_)
IntDigits(k) ==
    IF k < 10 THEN <<DigitChars[k + 1]>>
    ELSE IntDigits(k \div 10) \o <<DigitChars[(k % 10) + 1]>>

RECURSIVE Grouped(_)
Grouped(ds) ==
    IF Len(ds) <= 3 THEN ds
    ELSE Grouped(SubSeq(ds, 1, Len(ds) - 3)) \o <<".">> \o
         SubSeq(ds, Len(ds) - 2, Len(ds))

\* |x| * 100 rounded to the nearest integer, halves away from zero
RoundCents(x) == (2 * Abs(x.n) * 100 + x.d) \div (2 * x.d)

toLocaleString(x) ==
    IF isNaN(x) THEN <<"N", "a", "N">>
    ELSE LET c == RoundCents(x)
         IN  (IF x.n < 0 THEN <<"-">> ELSE <<>>) \o
             Grouped(IntDigits(c \div 100)) \o <<",">> \o
             <<DigitChars[((c % 100) \div 10) + 1], DigitChars[(c % 10) + 1]>>

(***************************************************************************)
(* Dates.  new Date(iso) and toISOString() convert between a Date and its  *)
(* ISO text without loss, so createdAt is kept as the date it denotes.     *)
(***************************************************************************)
IsLeap(y) == (y % 4 = 0 /\ y % 100 # 0) \/ y % 400 = 0

DaysInMonth(y, m) ==
    IF m = 1 THEN (IF IsLeap(y) THEN 29 ELSE 28)
    ELSE IF m \in {3, 5, 8, 10} THEN 30 ELSE 31

\* d.setMonth(k): month k of the year of d (k may leave 0..11), same day of
\* month; a day past the end of that month runs over into the next month
setMonth(date, k) ==
    LET idx == date.y * 12 + k
        y1  == idx \div 12
        m1  == idx % 12
        dim == DaysInMonth(y1, m1)
    IN  IF date.d <= dim THEN [y |-> y1, m |-> m1, d |-> date.d]
        ELSE [y |-> (idx + 1) \div 12, m |-> (idx + 1) % 12, d |-> date.d - dim]

\* the date of the session: new Date() at mount and at every save
Today == [y |-> 2024, m |-> 0, d |-> 15]

MonthIndex(date) == date.y * 12 + date.m

(***************************************************************************)
(* Configuration tables of src/App.tsx, cut to the keys the model uses     *)
(* (written without diacritics).                                           *)
(***************************************************************************)
DEFAULT_EXPENSE_CATEGORY == "Alimentacao"

expenseCategories ==
    [c \in {"Alimentacao", "Moradia"} |->
        IF c = "Alimentacao" THEN <<"Supermercado">> ELSE <<"Aluguel">>]

incomeCategories == <<"Salario fixo", "Renda extra">>

paymentMethods == <<"Credito">>

receivingMethods == <<"Pix">>

Range(f) == {f[i] : i \in DOMAIN f}

\* the value of an optional field that is not set
Undefined == "undefined"

\* editingId === null; ids are Date.now() values, all >= 1
Null == 0

\* errorMessage === null
NoMessage == "null"

\* x || y for option texts: "" and undefined are falsy
OrElse(x, y) == IF x \in {"", Undefined} THEN y ELSE x

\* s.trim() of an option text: no entry of the tables starts or ends with
\* white space, so only the blank texts change
trimOption(s) == IF s \in {"", " "} THEN "" ELSE s

(***************************************************************************)
(* State.                                                                  *)
(***************************************************************************)
VARIABLES
    variant,          \* which App component runs: "app" is src/App.tsx
    phase,            \* "init" before the mount effects, then "loaded"/"loading", then "ready"
    now,              \* ticks of the clock since mount: Date.now() = ClockBase + now
    entries,          \* entries / transactions / lancamentos
    description,      \* description / descricao (text input)
    amount,           \* amount / valor (text input)
    type,             \* type / tipo
    category,         \* category / categoria
    subcategory,
    paymentMethod,
    receivingMethod,
    editingId,
    errorMessage,
    currentMonth,
    storage,          \* what the storage key holds
    pending,          \* AsyncStorage requests issued and not yet completed
    lastOp,           \* the path the last handler took: "rejected", "created",
                      \* "updated", "deleted", "unprompted", "declined"; "none" for the others
    storageFails      \* setItem / removeItem throw or reject (the quota is used up)

vars == <<variant, phase, now, entries, description, amount, type, category,
          subcategory, paymentMethod, receivingMethod, editingId, errorMessage,
          currentMonth, storage, pending, lastOp, storageFails>>

formVars == <<description, amount, type, category, subcategory, paymentMethod,
              receivingMethod, editingId>>

(***************************************************************************)
(* JSON.  A stored record keeps the JSON type of the fields that the load  *)
(* of src/App.tsx inspects: [t |-> type, v |-> value].                     *)
(***************************************************************************)
JStr(s) == [t |-> "string", v |-> s]

JNoText == [t |-> "undefined", v |-> <<>>]

JNum(x) == [t |-> "number", v |-> x]

\* JSON.stringify writes NaN as null
JNull == [t |-> "null", v |-> NaN]

\* an amount stored as text, e.g. "12"
JTextAmount == [t |-> "string", v |-> NaN]

JDate(date) == [t |-> "string", v |-> date]

JNoDate == [t |-> "undefined", v |-> [y |-> 0, m |-> 0, d |-> 0]]

Absent == [kind |-> "absent", items |-> <<>>]

Stored(items) == [kind |-> "array", items |-> items]

\* JSON.stringify(entries) of src/App.tsx
stringifyEntry(e) ==
    [id |-> e.id, description |-> JStr(e.description),
     amount |-> IF isNaN(e.amount) THEN JNull ELSE JNum(e.amount),
     type |-> e.type, category |-> e.category, subcategory |-> e.subcategory,
     paymentMethod |-> e.paymentMethod, receivingMethod |-> e.receivingMethod,
     createdAt |-> JDate(e.createdAt)]

stringify(es) == Stored([i \in 1..Len(es) |-> stringifyEntry(es[i])])

\* the first Date.now() of the session: later than every stored or seeded id
ClockBase == 3 + 1

DateNow == ClockBase + now

(***************************************************************************)
(* What the storage key of src/App.tsx may hold at startup.                *)
(***************************************************************************)
Uber == <<"U", "b", "e", "r">>

Aluguel == <<"A", "l", "u", "g", "u", "e", "l">>

StoredAluguel ==
    [id |-> 1, description |-> JStr(Aluguel), amount |-> JNum(Int2Num(2200)),
     type |-> "expense", category |-> "Moradia", subcategory |-> "Aluguel",
     paymentMethod |-> "Credito", receivingMethod |-> Undefined,
     createdAt |-> JDate([y |-> Today.y, m |-> Today.m, d |-> Today.d - 10])]

\* an income of the same month of the year before, category outside the lists
StoredLastYear ==
    [id |-> 2, description |-> JStr(<<"B", "o", "n", "u", "s">>),
     amount |-> JNum(Frac(1234567, 1000)),
     type |-> "income", category |-> "Extra", subcategory |-> Undefined,
     paymentMethod |-> Undefined, receivingMethod |-> "Pix",
     createdAt |-> JDate([y |-> Today.y - 1, m |-> Today.m, d |-> Today.d])]

\* malformed: the amount is text, and there is no createdAt
StoredTextAmount ==
    [id |-> 3, description |-> JStr(Uber), amount |-> JTextAmount,
     type |-> "expense", category |-> "Moradia", subcategory |-> Undefined,
     paymentMethod |-> Undefined, receivingMethod |-> Undefined,
     createdAt |-> JNoDate]

\* malformed: no description
StoredNoDescription ==
    [id |-> 3, description |-> JNoText, amount |-> JNum(Int2Num(50)),
     type |-> "expense", category |-> "Moradia", subcategory |-> Undefined,
     paymentMethod |-> Undefined, receivingMethod |-> Undefined,
     createdAt |-> JDate(Today)]

AppStorages ==
    {Absent,
     Stored(<<StoredAluguel>>),
     Stored(<<StoredTextAmount, StoredLastYear, StoredNoDescription>>)}

(***************************************************************************)
(* src/App.tsx: effects.                                                   *)
(***************************************************************************)
\* a load that stamps every entry with the date of the load
loadEntriesNewDate(items) ==
    LET kept == SelectSeq(items, LAMBDA e :
                    e.amount.t = "number" /\ e.description.v # <<>>)
    IN  [i \in 1..Len(kept) |->
            [id |-> kept[i].id, description |-> kept[i].description.v,
             amount |-> kept[i].amount.v, type |-> kept[i].type,
             category |-> kept[i].category,
             subcategory |-> kept[i].subcategory,
             paymentMethod |-> kept[i].paymentMethod,
             receivingMethod |-> kept[i].receivingMethod,
             createdAt |-> Today]]

\* the shape filter and the createdAt default of the load effect
loadEntries(items) ==
    LET kept == SelectSeq(items, LAMBDA e :
                    e.amount.t = "number" /\ e.description.v # <<>>)
    IN  [i \in 1..Len(kept) |->
            [id |-> kept[i].id, description |-> kept[i].description.v,
             amount |-> kept[i].amount.v, type |-> kept[i].type,
             category |-> kept[i].category,
             subcategory |-> kept[i].subcategory,
             paymentMethod |-> kept[i].paymentMethod,
             receivingMethod |-> kept[i].receivingMethod,
             createdAt |-> IF kept[i].createdAt.t = "undefined" THEN Today
                           ELSE kept[i].createdAt.v]]

\* localStorage.setItem inside try/catch: a write that throws is caught and
\* logged, and the key keeps what it holds
Write(data) == IF storageFails THEN storage ELSE data

\* the effects of the first commit: the load effect reads the key and sets
\* entries; the persist effect then writes the entries of the first render
mountEffects ==
    /\ variant = "app" /\ phase = "init"
    /\ storage' = Write(stringify(entries))
    /\ IF storage.kind = "array"
       THEN entries' = loadEntries(storage.items) /\ phase' = "loaded"
       ELSE entries' = entries /\ phase' = "ready"
    /\ UNCHANGED <<variant, now, formVars, errorMessage, currentMonth, pending>>

\* the render that follows setEntries of the load effect: persist effect
persistLoaded ==
    /\ variant = "app" /\ phase = "loaded"
    /\ storage' = Write(stringify(entries))
    /\ phase' = "ready"
    /\ UNCHANGED <<variant, now, entries, formVars, errorMessage, currentMonth,
                   pending>>

(***************************************************************************)
(* src/App.tsx: the form.                                                  *)
(***************************************************************************)
appReady == variant = "app" /\ phase = "ready"

\* texts typed in the description field
DescriptionInputs == {<<" ">>, Uber \o <<" ">>}

\* texts typed in the amount field of src/App.tsx (masked on every change)
RawAmounts ==
    {<<"a", "b", "c">>, <<"0">>, <<"8", "5", "0", "0", "0", "0">>}

\* onChangeText of the description field
changeDescription(text) ==
    /\ appReady
    /\ errorMessage' = NoMessage
    /\ description' = text
    /\ UNCHANGED <<variant, phase, now, entries, amount, type, category,
                   subcategory, paymentMethod, receivingMethod, editingId,
                   currentMonth, storage, pending>>

\* the mask without the early return on an empty digit string
maskAmountUnguarded(raw) == toLocaleString(Frac(parseInt(onlyDigits(raw)), 100))

\* the text handleAmountChange puts in the amount field
maskAmount(raw) ==
    LET digits == onlyDigits(raw)
    IN  IF digits = <<>> THEN <<>>
        ELSE toLocaleString(Frac(parseInt(digits), 100))

handleAmountChange(raw) ==
    /\ appReady
    /\ errorMessage' = NoMessage
    /\ amount' = maskAmount(raw)
    /\ UNCHANGED <<variant, phase, now, entries, description, type, category,
                   subcategory, paymentMethod, receivingMethod, editingId,
                   currentMonth, storage, pending>>

\* onPress of the "Despesa" toggle
pressExpense ==
    /\ appReady
    /\ errorMessage' = NoMessage
    /\ type' = "expense"
    /\ category' = DEFAULT_EXPENSE_CATEGORY
    /\ subcategory' = ""
    /\ paymentMethod' = ""
    /\ receivingMethod' = ""
    /\ UNCHANGED <<variant, phase, now, entries, description, amount, editingId,
                   currentMonth, storage, pending>>

\* onPress of the "Receita" toggle
pressIncome ==
    /\ appReady
    /\ errorMessage' = NoMessage
    /\ type' = "income"
    /\ category' = incomeCategories[1]
    /\ subcategory' = ""
    /\ paymentMethod' = ""
    /\ receivingMethod' = ""
    /\ UNCHANGED <<variant, phase, now, entries, description, amount, editingId,
                   currentMonth, storage, pending>>

\* onChange of the expense category Dropdown
changeExpenseCategory(cat) ==
    /\ appReady /\ type = "expense"
    /\ category' = cat
    /\ subcategory' = ""
    /\ UNCHANGED <<variant, phase, now, entries, description, amount, type,
                   paymentMethod, receivingMethod, editingId, errorMessage,
                   currentMonth, storage, pending>>

\* the options of the subcategory Dropdown
currentExpenseSubcategories ==
    IF type = "expense" /\ category \in DOMAIN expenseCategories
    THEN expenseCategories[category] ELSE <<>>

\* onChange of the subcategory Dropdown (rendered when it has options)
changeSubcategory(sub) ==
    /\ appReady /\ type = "expense"
    /\ sub \in Range(currentExpenseSubcategories)
    /\ subcategory' = sub
    /\ UNCHANGED <<variant, phase, now, entries, description, amount, type,
                   category, paymentMethod, receivingMethod, editingId,
                   errorMessage, currentMonth, storage, pending>>

\* onChange of the payment method Dropdown
changePaymentMethod(pm) ==
    /\ appReady /\ type = "expense"
    /\ paymentMethod' = pm
    /\ UNCHANGED <<variant, phase, now, entries, description, amount, type,
                   category, subcategory, receivingMethod, editingId,
                   errorMessage, currentMonth, storage, pending>>

\* onChange of the income category Dropdown
changeIncomeCategory(cat) ==
    /\ appReady /\ type = "income"
    /\ category' = cat
    /\ UNCHANGED <<variant, phase, now, entries, description, amount, type,
                   subcategory, paymentMethod, receivingMethod, editingId,
                   errorMessage, currentMonth, storage, pending>>

\* onChange of the receiving method Dropdown
changeReceivingMethod(rm) ==
    /\ appReady /\ type = "income"
    /\ receivingMethod' = rm
    /\ UNCHANGED <<variant, phase, now, entries, description, amount, type,
                   category, subcategory, paymentMethod, editingId,
                   errorMessage, currentMonth, storage, pending>>

\* resetForm without setEditingId(null)
resetFormKeepTarget ==
    /\ description' = <<>>
    /\ amount' = <<>>
    /\ type' = "expense"
    /\ category' = DEFAULT_EXPENSE_CATEGORY
    /\ subcategory' = ""
    /\ paymentMethod' = ""
    /\ receivingMethod' = ""
    /\ editingId' = editingId

resetForm ==
    /\ description' = <<>>
    /\ amount' = <<>>
    /\ type' = "expense"
    /\ category' = DEFAULT_EXPENSE_CATEGORY
    /\ subcategory' = ""
    /\ paymentMethod' = ""
    /\ receivingMethod' = ""
    /\ editingId' = Null

(***************************************************************************)
(* src/App.tsx: handleSave.                                                *)
(***************************************************************************)
\* Number(rawAmount.replace(/\./g, "").replace(",", "."))
\* the parse without the removal of the grouping points
parseAmountKeepingPoints(rawAmount) == Number(replaceFirst(rawAmount, <<",">>, <<".">>))

parseAmount(rawAmount) ==
    Number(replaceFirst(removeAll(rawAmount, "."), <<",">>, <<".">>))

\* the message handleSave reports for the form, NoMessage when it is valid
validate(desc, rawAmount) ==
    IF desc = <<>> THEN "Descricao obrigatoria"
    ELSE IF rawAmount = <<>> THEN "Informe um valor"
    ELSE IF isNaN(parseAmount(rawAmount)) \/ LeqZero(parseAmount(rawAmount))
         THEN "Informe um valor maior que zero"
    ELSE NoMessage

baseData ==
    [description |-> trim(description),
     amount |-> parseAmount(trim(amount)),
     type |-> type,
     category |-> OrElse(trimOption(category),
                         IF type = "income" THEN "Renda extra"
                         ELSE DEFAULT_EXPENSE_CATEGORY),
     subcategory |-> OrElse(trimOption(subcategory), Undefined),
     paymentMethod |-> IF type = "expense" THEN OrElse(paymentMethod, Undefined)
                       ELSE Undefined,
     receivingMethod |-> IF type = "income" THEN OrElse(receivingMethod, Undefined)
                         ELSE Undefined,
     createdAt |-> Today]

WithId(id, data) ==
    [id |-> id, description |-> data.description, amount |-> data.amount,
     type |-> data.type, category |-> data.category,
     subcategory |-> data.subcategory, paymentMethod |-> data.paymentMethod,
     receivingMethod |-> data.receivingMethod, createdAt |-> data.createdAt]

\* a map that takes all of baseData, createdAt included
updateEntriesNewDate(prev, id, data) ==
    [i \in 1..Len(prev) |->
        IF prev[i].id = id THEN WithId(prev[i].id, data) ELSE prev[i]]

\* prev.map(...) of the edit branch: {...entry, ...baseData, createdAt: entry.createdAt}
updateEntries(prev, id, data) ==
    [i \in 1..Len(prev) |->
        IF prev[i].id = id
        THEN [WithId(prev[i].id, data) EXCEPT !.createdAt = prev[i].createdAt]
        ELSE prev[i]]

\* [entry, ...prev], rolled back when the write fails
prependUnlessFailing(prev, entry) == IF storageFails THEN prev ELSE <<entry>> \o prev

\* [entry, ...prev] of the create branch
prependEntry(prev, entry) == <<entry>> \o prev

handleSave ==
    /\ appReady
    /\ LET msg == validate(trim(description), trim(amount))
       IN  IF msg # NoMessage
           THEN /\ errorMessage' = msg
                /\ lastOp' = "rejected"
                /\ UNCHANGED <<entries, formVars, storage>>
           ELSE /\ errorMessage' = NoMessage
                /\ IF editingId # Null
                   THEN /\ entries' = updateEntries(entries, editingId, baseData)
                        /\ lastOp' = "updated"
                   ELSE /\ Len(entries) < MaxEntries
                        /\ entries' = prependEntry(entries, WithId(DateNow, baseData))
                        /\ lastOp' = "created"
                /\ resetForm
                /\ storage' = Write(stringify(entries'))
    /\ UNCHANGED <<variant, phase, now, currentMonth, pending>>

(***************************************************************************)
(* src/App.tsx: delete, edit, month navigation, the month's aggregate.     *)
(***************************************************************************)
\* a removal of the first entry with the id only
removeFirstEntry(prev, id) ==
    LET at == {i \in 1..Len(prev) : prev[i].id = id}
    IN  IF at = {} THEN prev
        ELSE LET i == CHOOSE k \in at : \A j \in at : k <= j
             IN  SubSeq(prev, 1, i - 1) \o SubSeq(prev, i + 1, Len(prev))

\* prev.filter((entry) => entry.id !== id)
removeEntry(prev, id) == SelectSeq(prev, LAMBDA e : e.id # id)

isSameMonth(date, ref) == date.m = ref.m /\ date.y = ref.y

\* the entries the list shows: those of the month of currentMonth
filteredEntries == SelectSeq(entries, LAMBDA e : isSameMonth(e.createdAt, currentMonth))

\* a delete that does not return when the prompt is declined
handleDeleteEntryNoReturn(id, answer) ==
    /\ appReady
    /\ \E i \in 1..Len(filteredEntries) : filteredEntries[i].id = id
    /\ entries' = SelectSeq(entries, LAMBDA e : e.id # id)
    /\ storage' = Write(stringify(entries'))
    /\ lastOp' = (IF answer = "no" THEN "declined"
                  ELSE IF answer = "yes" THEN "deleted" ELSE "unprompted")
    /\ UNCHANGED <<variant, phase, now, formVars, errorMessage, currentMonth,
                   pending>>

\* a delete that gives up when there is no prompt to show
handleDeleteEntryNeedsPrompt(id, answer) ==
    /\ appReady
    /\ \E i \in 1..Len(filteredEntries) : filteredEntries[i].id = id
    /\ IF answer = "yes"
       THEN /\ entries' = SelectSeq(entries, LAMBDA e : e.id # id)
            /\ storage' = Write(stringify(entries'))
            /\ lastOp' = "deleted"
       ELSE /\ lastOp' = (IF answer = "no" THEN "declined" ELSE "unprompted")
            /\ UNCHANGED <<entries, storage>>
    /\ UNCHANGED <<variant, phase, now, formVars, errorMessage, currentMonth,
                   pending>>

\* what window.confirm does: the user answers, or there is no prompt to show
\* (no window, or the call throws) and the handler goes on without it
Answers == {"yes", "no", "unavailable"}

\* the "Excluir" button of a listed entry
handleDeleteEntry(id, answer) ==
    /\ appReady
    /\ \E i \in 1..Len(filteredEntries) : filteredEntries[i].id = id
    /\ IF answer = "no"
       THEN lastOp' = "declined" /\ UNCHANGED <<entries, storage>>
       ELSE /\ entries' = removeEntry(entries, id)
            /\ storage' = Write(stringify(entries'))
            /\ lastOp' = (IF answer = "yes" THEN "deleted" ELSE "unprompted")
    /\ UNCHANGED <<variant, phase, now, formVars, errorMessage, currentMonth,
                   pending>>

\* the "Editar" button of a listed entry
handleEditStart(entry) ==
    /\ appReady
    /\ \E i \in 1..Len(filteredEntries) : filteredEntries[i] = entry
    /\ errorMessage' = NoMessage
    /\ description' = entry.description
    /\ type' = entry.type
    /\ IF entry.type = "expense"
       THEN /\ category' = IF entry.category \in DOMAIN expenseCategories
                           THEN entry.category ELSE DEFAULT_EXPENSE_CATEGORY
            /\ subcategory' = OrElse(entry.subcategory, "")
            /\ paymentMethod' = OrElse(entry.paymentMethod, "")
            /\ receivingMethod' = ""
       ELSE /\ category' = IF entry.category \in Range(incomeCategories)
                           THEN entry.category ELSE incomeCategories[1]
            /\ subcategory' = ""
            /\ paymentMethod' = ""
            /\ receivingMethod' = OrElse(entry.receivingMethod, "")
    /\ amount' = toLocaleString(entry.amount)
    /\ editingId' = entry.id
    /\ UNCHANGED <<variant, phase, now, entries, currentMonth, storage, pending>>

\* the reference date after changeMonth(delta)
shiftMonth(prev, delta) == setMonth(prev, prev.m + delta)

\* a month change that also leaves edit mode
changeMonthLeavingEdit(delta) ==
    /\ appReady
    /\ Abs(MonthIndex(shiftMonth(currentMonth, delta)) - MonthIndex(Today)) <= MaxShift
    /\ currentMonth' = shiftMonth(currentMonth, delta)
    /\ editingId' = Null
    /\ UNCHANGED <<variant, phase, now, entries, description, amount, type, category,
                   subcategory, paymentMethod, receivingMethod, errorMessage,
                   storage, pending>>

changeMonth(delta) ==
    /\ appReady
    /\ Abs(MonthIndex(shiftMonth(currentMonth, delta)) - MonthIndex(Today)) <= MaxShift
    /\ currentMonth' = shiftMonth(currentMonth, delta)
    /\ UNCHANGED <<variant, phase, now, entries, formVars, errorMessage, storage,
                   pending>>

\* list.reduce((sum, e) => sum + e.amount, 0)
RECURSIVE reduceSum(_, _)
reduceSum(list, sum) ==
    IF list = <<>> THEN sum
    ELSE reduceSum(Tail(list), Add(sum, Head(list).amount))

ofType(list, t) == SelectSeq(list, LAMBDA e : e.type = t)

incomes == ofType(filteredEntries, "income")

expenses == ofType(filteredEntries, "expense")

totalIncome == reduceSum(incomes, Int2Num(0))

totalExpense == reduceSum(expenses, Int2Num(0))

balance == Sub(totalIncome, totalExpense)

\* the total expense divided by the number of all entries of the month
averageOverAllEntries ==
    IF Len(expenses) = 0 THEN Int2Num(0)
    ELSE DivInt(totalExpense, Len(filteredEntries))

averageExpense ==
    IF Len(expenses) = 0 THEN Int2Num(0)
    ELSE DivInt(totalExpense, Len(expenses))

(***************************************************************************)
(* The clock: Date.now() does not move while a handler runs and may or may *)
(* not have moved between two handlers.                                    *)
(***************************************************************************)
Tick ==
    /\ now < MaxClock
    /\ now' = now + 1
    /\ UNCHANGED <<variant, phase, entries, formVars, errorMessage, currentMonth,
                   storage, pending>>

(***************************************************************************)
(* The text fields and type toggles of part_000 .. part_003, which set the *)
(* state directly (onChangeText={setDescription}, ...).                    *)
(***************************************************************************)
Plain == {"p000", "p001", "p002", "p003"}

\* texts typed in the free-text amount field
AmountTexts ==
    {<<"a", "b", "c">>, <<"0">>, <<"8", ".", "5", "0", "0", ",", "0", "0">>}

\* texts typed in the category field of part_001 and part_003
CategoryTexts == {" "}

TypesOf(v) == IF v = "p002" THEN {"receita", "despesa"} ELSE {"income", "expense"}

setDescription(text) ==
    /\ variant \in Plain
    /\ description' = text
    /\ UNCHANGED <<variant, phase, now, entries, amount, type, category,
                   subcategory, paymentMethod, receivingMethod, editingId,
                   errorMessage, currentMonth, storage, pending>>

setAmount(text) ==
    /\ variant \in Plain
    /\ amount' = text
    /\ UNCHANGED <<variant, phase, now, entries, description, type, category,
                   subcategory, paymentMethod, receivingMethod, editingId,
                   errorMessage, currentMonth, storage, pending>>

\* handleToggleType / setType / setTipo
setType(value) ==
    /\ variant \in Plain
    /\ value \in TypesOf(variant)
    /\ type' = value
    /\ UNCHANGED <<variant, phase, now, entries, description, amount, category,
                   subcategory, paymentMethod, receivingMethod, editingId,
                   errorMessage, currentMonth, storage, pending>>

setCategory(text) ==
    /\ variant \in {"p001", "p003"}
    /\ category' = text
    /\ UNCHANGED <<variant, phase, now, entries, description, amount, type,
                   subcategory, paymentMethod, receivingMethod, editingId,
                   errorMessage, currentMonth, storage, pending>>

(***************************************************************************)
(* AsyncStorage (part_000, part_002): a request is issued by the caller    *)
(* and completes later, in the order of issue.                             *)
(***************************************************************************)
MaxPending == 1     \* handlers are taken while fewer requests are in flight

SetItem(data, resume) == [op |-> "setItem", data |-> data, resume |-> resume]

RemoveItem == [op |-> "removeItem", data |-> Absent, resume |-> "none"]

\* the oldest request completes; the caller that awaits it resumes:
\* salvar then clears descricao and valor. A request that rejects leaves the
\* key as it is: part_000 catches and logs the error, salvar has no catch and
\* ends at the await, before it clears the fields. The storage serves its
\* requests one at a time in the order of issue, and the getItem of the
\* mount effect is the first: no write completes while the load is going on
storageDone ==
    /\ pending # <<>>
    /\ phase # "loading"
    /\ storage' = IF storageFails THEN storage
                  ELSE IF Head(pending).op = "setItem" THEN Head(pending).data
                  ELSE Absent
    /\ pending' = Tail(pending)
    /\ IF Head(pending).resume = "salvar" /\ ~storageFails
       THEN description' = <<>> /\ amount' = <<>>
       ELSE UNCHANGED <<description, amount>>
    /\ UNCHANGED <<variant, phase, now, entries, type, category, subcategory,
                   paymentMethod, receivingMethod, editingId, errorMessage,
                   currentMonth>>

\* the amount of a parsed record: a number, or the null that JSON.stringify
\* wrote for NaN
FromJSON(j) == IF j.t = "number" THEN j.v ELSE NullNum

ToJSON(x) == IF isNaN(x) \/ isNull(x) THEN JNull ELSE JNum(x)

(***************************************************************************)
(* src/unnamed/part_000.                                                   *)
(***************************************************************************)
isLoadingStorage == phase = "loading"

stringifyTransactions(ts) ==
    Stored([i \in 1..Len(ts) |-> [ts[i] EXCEPT !.amount = ToJSON(ts[i].amount)]])

parseTransactions(items) ==
    [i \in 1..Len(items) |-> [items[i] EXCEPT !.amount = FromJSON(items[i].amount)]]

\* the persist effect after a render with changed transactions or flag
saveTransactions(ts, loading) ==
    IF loading THEN <<>> ELSE <<SetItem(stringifyTransactions(ts), "none")>>

\* the awaited getItem of the load effect completes
loadTransactions ==
    /\ variant = "p000" /\ phase = "loading"
    /\ entries' = IF storage.kind = "array" THEN parseTransactions(storage.items)
                  ELSE entries
    /\ phase' = "ready"
    /\ pending' = pending \o saveTransactions(entries', FALSE)
    /\ UNCHANGED <<variant, now, formVars, errorMessage, currentMonth, storage>>

\* a transaction of the month before, written by an earlier session
StoredLastMonth ==
    [id |-> 1, description |-> Aluguel, amount |-> JNum(Int2Num(2200)),
     type |-> "expense", createdAt |-> setMonth(Today, Today.m - 1)]

\* a transaction stored without a description (no text to show)
StoredNoText ==
    [id |-> 2, description |-> <<>>, amount |-> JNum(Int2Num(100)),
     type |-> "income", createdAt |-> Today]

\* useMemo totals: over all transactions
totals ==
    LET income   == reduceSum(ofType(entries, "income"), Int2Num(0))
        expenses0 == reduceSum(ofType(entries, "expense"), Int2Num(0))
    IN  [income |-> income, expenses |-> expenses0, balance |-> Sub(income, expenses0)]

\* amount.replace("R$", "").replace(" ", "").replace(",", ".")
cleaned(text) ==
    replaceFirst(replaceFirst(replaceFirst(text, <<"R", "$">>, <<>>),
                              <<" ">>, <<>>), <<",">>, <<".">>)

handleAddTransaction ==
    /\ variant = "p000"
    /\ LET numericAmount == parseFloat(cleaned(amount))
       IN  IF trim(description) = <<>> \/ isNaN(numericAmount) \/ LeqZero(numericAmount)
           THEN lastOp' = "rejected" /\
                UNCHANGED <<entries, description, amount, type, pending>>
           ELSE /\ Len(entries) < MaxEntries
                /\ Len(pending) < MaxPending
                /\ lastOp' = "created"
                /\ entries' = prependEntry(entries,
                       [id |-> DateNow, description |-> trim(description),
                        amount |-> numericAmount, type |-> type,
                        createdAt |-> Today])
                /\ description' = <<>>
                /\ amount' = <<>>
                /\ type' = "expense"
                /\ pending' = pending \o saveTransactions(entries', isLoadingStorage)
    /\ UNCHANGED <<variant, phase, now, category, subcategory, paymentMethod,
                   receivingMethod, editingId, errorMessage, currentMonth, storage>>

\* "Limpar todos", rendered while there are transactions
handleClearAll ==
    /\ variant = "p000"
    /\ Len(entries) > 0
    /\ Len(pending) < MaxPending
    /\ entries' = <<>>
    /\ pending' = pending \o <<RemoveItem>> \o saveTransactions(entries', isLoadingStorage)
    /\ UNCHANGED <<variant, phase, now, formVars, errorMessage, currentMonth, storage>>

(***************************************************************************)
(* src/unnamed/part_001 and part_003.                                      *)
(***************************************************************************)
seedTransactions ==
    <<[id |-> 1, description |-> <<"S", "a", "l", "a", "r", "i", "o">>,
       category |-> "Renda fixa", type |-> "income", amount |-> Int2Num(8500),
       date |-> Today],
      [id |-> 2, description |-> Aluguel,
       category |-> "Moradia", type |-> "expense", amount |-> Int2Num(2200),
       date |-> Today],
      [id |-> 3, description |-> <<"S", "u", "p", "e", "r">>,
       category |-> "Alimentacao", type |-> "expense", amount |-> Int2Num(680),
       date |-> Today]>>

\* useMemo summary of part_001
summary_p001 ==
    LET income  == reduceSum(ofType(entries, "income"), Int2Num(0))
        expense == reduceSum(ofType(entries, "expense"), Int2Num(0))
    IN  [income |-> income, expense |-> expense, balance |-> Sub(income, expense)]

\* useMemo summary of part_003
summary_p003 ==
    LET income      == reduceSum(ofType(entries, "income"), Int2Num(0))
        expense     == reduceSum(ofType(entries, "expense"), Int2Num(0))
        expenseOnly == ofType(entries, "expense")
    IN  [income |-> income, expense |-> expense, balance |-> Sub(income, expense),
         averageExpense |->
             IF Len(expenseOnly) > 0
             THEN DivInt(reduceSum(expenseOnly, Int2Num(0)), Len(expenseOnly))
             ELSE Int2Num(0)]

handleAdd ==
    /\ variant \in {"p001", "p003"}
    /\ LET value == parseFloat(replaceFirst(amount, <<",">>, <<".">>))
       IN  IF trim(description) = <<>> \/ amount = <<>> \/ isNaN(value)
           THEN lastOp' = "rejected" /\
                UNCHANGED <<entries, description, amount, category, type>>
           ELSE /\ Len(entries) < Len(seedTransactions) + MaxEntries
                /\ lastOp' = "created"
                /\ entries' = prependEntry(entries,
                       [id |-> DateNow, description |-> trim(description),
                        category |-> OrElse(trimOption(category), "Outros"),
                        type |-> type, amount |-> value, date |-> Today])
                /\ description' = <<>>
                /\ amount' = <<>>
                /\ category' = "Alimentacao"
                /\ type' = "expense"
    /\ UNCHANGED <<variant, phase, now, subcategory, paymentMethod, receivingMethod,
                   editingId, errorMessage, currentMonth, storage, pending>>

(***************************************************************************)
(* src/unnamed/part_002.                                                   *)
(***************************************************************************)
stringifyLancamentos(ls) ==
    Stored([i \in 1..Len(ls) |-> [ls[i] EXCEPT !.valor = ToJSON(ls[i].valor)]])

parseLancamentos(items) ==
    [i \in 1..Len(items) |-> [items[i] EXCEPT !.valor = FromJSON(items[i].valor)]]

\* a lancamento written by an earlier session
StoredLancamento ==
    [id |-> 1, descricao |-> Aluguel, valor |-> JNum(Int2Num(2200)),
     categoria |-> "Alimentacao", tipo |-> "despesa", data |-> Today]

\* the awaited getItem of loadData completes
loadData ==
    /\ variant = "p002" /\ phase = "loading"
    /\ entries' = IF storage.kind = "array" THEN parseLancamentos(storage.items)
                  ELSE entries
    /\ phase' = "ready"
    /\ UNCHANGED <<variant, now, formVars, errorMessage, currentMonth, storage,
                   pending>>

\* salvar up to its await: the form is cleared when the write has completed
salvar ==
    /\ variant = "p002"
    /\ IF description = <<>> \/ amount = <<>>
       THEN lastOp' = "rejected" /\ UNCHANGED <<entries, pending>>
       ELSE /\ Len(entries) < MaxEntries
            /\ Len(pending) < MaxPending
            /\ lastOp' = "created"
            /\ LET novo == [id |-> DateNow, descricao |-> description,
                            valor |-> parseFloat(amount), categoria |-> category,
                            tipo |-> type, data |-> Today]
                   listaAtual == Append(entries, novo)
               IN  /\ entries' = listaAtual
                   /\ pending' = Append(pending,
                                        SetItem(stringifyLancamentos(listaAtual), "salvar"))
    /\ UNCHANGED <<variant, phase, now, formVars, errorMessage, currentMonth, storage>>

\* lancamentos.filter(l => l.tipo === tipo).reduce((a, b) => a + b.valor, 0)
RECURSIVE reduceValor(_, _)
reduceValor(list, a) ==
    IF list = <<>> THEN a
    ELSE reduceValor(Tail(list), Add(a, Head(list).valor))

receitas == reduceValor(SelectSeq(entries, LAMBDA l : l.tipo = "receita"), Int2Num(0))

despesas == reduceValor(SelectSeq(entries, LAMBDA l : l.tipo = "despesa"), Int2Num(0))

saldo == Sub(receitas, despesas)

(***************************************************************************)
(* Specification.                                                          *)
(***************************************************************************)
InitApp ==
    /\ variant = "app"
    /\ phase = "init"
    /\ now = 0
    /\ entries = <<>>
    /\ description = <<>>
    /\ amount = <<>>
    /\ type = "expense"
    /\ category = DEFAULT_EXPENSE_CATEGORY
    /\ subcategory = ""
    /\ paymentMethod = ""
    /\ receivingMethod = ""
    /\ editingId = Null
    /\ errorMessage = NoMessage
    /\ currentMonth = Today
    /\ storage \in AppStorages
    /\ pending = <<>>
    /\ lastOp = "none"
    /\ storageFails = FALSE

InitPlain ==
    /\ variant \in Plain
    /\ phase = (IF variant \in {"p000", "p002"} THEN "loading" ELSE "ready")
    /\ now = 0
    /\ entries = (IF variant \in {"p001", "p003"} THEN seedTransactions ELSE <<>>)
    /\ description = <<>>
    /\ amount = <<>>
    /\ type = (IF variant = "p002" THEN "despesa" ELSE "expense")
    /\ category = "Alimentacao"
    /\ subcategory = ""
    /\ paymentMethod = ""
    /\ receivingMethod = ""
    /\ editingId = Null
    /\ errorMessage = NoMessage
    /\ currentMonth = Today
    /\ storage \in (IF variant = "p000"
                    THEN {Absent, Stored(<<StoredLastMonth>>),
                          Stored(<<StoredNoText, StoredLastMonth>>)}
                    ELSE IF variant = "p002" THEN {Absent, Stored(<<StoredLancamento>>)}
                    ELSE {Absent})
    /\ pending = <<>>
    /\ lastOp = "none"
    /\ storageFails = FALSE

InitOf(v) == (InitApp \/ InitPlain) /\ variant = v

Init == InitApp \/ InitPlain

\* src/App.tsx: startup, the text fields, the type toggles, edit, month
\* navigation, the clock
AppSteps ==
    \/ mountEffects
    \/ persistLoaded
    \/ \E text \in DescriptionInputs : changeDescription(text)
    \/ \E raw \in RawAmounts : handleAmountChange(raw)
    \/ pressExpense
    \/ pressIncome
    \/ \E e \in Range(entries) : handleEditStart(e)
    \/ \E delta \in {-1, 1} : changeMonth(delta)
    \/ Tick

AppSaves ==
    \/ handleSave
    \/ \E e \in Range(entries), answer \in Answers : handleDeleteEntry(e.id, answer)

\* src/App.tsx: the Dropdowns of category, subcategory and methods
DropdownSteps ==
    \/ \E cat \in DOMAIN expenseCategories : changeExpenseCategory(cat)
    \/ \E sub \in UNION {Range(expenseCategories[c]) : c \in DOMAIN expenseCategories} :
          changeSubcategory(sub)
    \/ \E pm \in Range(paymentMethods) : changePaymentMethod(pm)
    \/ \E cat \in Range(incomeCategories) : changeIncomeCategory(cat)
    \/ \E rm \in Range(receivingMethods) : changeReceivingMethod(rm)

\* the text fields and toggles of part_000 .. part_003, the clock
PlainSteps ==
    \/ \E text \in DescriptionInputs : setDescription(text)
    \/ \E text \in AmountTexts : setAmount(text)
    \/ \E value \in {"income", "expense", "receita", "despesa"} : setType(value)
    \/ Tick

NextApp ==
    /\ (AppSteps /\ lastOp' = "none") \/ AppSaves
    /\ UNCHANGED storageFails

NextAsync ==
    /\ \/ (PlainSteps \/ storageDone \/ loadTransactions \/ handleClearAll) /\ lastOp' = "none"
       \/ handleAddTransaction
    /\ UNCHANGED storageFails

NextSeed ==
    /\ \/ (PlainSteps \/ \E text \in CategoryTexts : setCategory(text)) /\ lastOp' = "none"
       \/ handleAdd
    /\ UNCHANGED storageFails

NextSalvar ==
    /\ \/ (PlainSteps \/ storageDone \/ loadData) /\ lastOp' = "none"
       \/ salvar
    /\ UNCHANGED storageFails

Next ==
    \/ variant = "app" /\ NextApp
    \/ variant = "p000" /\ NextAsync
    \/ variant \in {"p001", "p003"} /\ NextSeed
    \/ variant = "p002" /\ NextSalvar

\* all five components
Spec == Init /\ [][Next]_vars

\* src/App.tsx
SpecApp == InitApp /\ [][NextApp]_vars

\* src/unnamed/part_000
InitAsync == InitOf("p000")

\* src/unnamed/part_000
SpecAsync == InitAsync /\ [][NextAsync]_vars

InitSeed == InitOf("p001") \/ InitOf("p003")

\* src/unnamed/part_001 and part_003
SpecSeed == InitSeed /\ [][NextSeed]_vars

\* src/unnamed/part_002
InitSalvar == InitOf("p002")

\* src/unnamed/part_002
SpecSalvar == InitSalvar /\ [][NextSalvar]_vars

\* src/App.tsx with the Dropdowns: one description, one amount, no clock,
\* no month navigation, no delete
FormSteps ==
    \/ mountEffects
    \/ persistLoaded
    \/ changeDescription(Uber)
    \/ handleAmountChange(<<"8", "5", "0", "0", "0", "0">>)
    \/ pressExpense
    \/ pressIncome
    \/ \E e \in Range(entries) : handleEditStart(e)
    \/ DropdownSteps

NextForm ==
    /\ (FormSteps /\ lastOp' = "none") \/ handleSave
    /\ UNCHANGED storageFails

InitForm == InitOf("app") /\ storage \in {Absent, Stored(<<StoredAluguel>>)}

SpecForm == InitForm /\ [][NextForm]_vars

(***************************************************************************)
(* The amount field of src/App.tsx under the keyboard: every key press     *)
(* hands the text of the field with one character added at the end, or     *)
(* with the last character erased, to handleAmountChange.                  *)
(***************************************************************************)
MaxDigits == 6      \* keys are taken while the field holds fewer digits

AmountKeys == {"0", "1", "8", "a", ",", "-"}

typeAmount(c) ==
    /\ Len(onlyDigits(amount)) < MaxDigits
    /\ handleAmountChange(Append(amount, c))

eraseAmount ==
    /\ amount # <<>>
    /\ handleAmountChange(SubSeq(amount, 1, Len(amount) - 1))

NextMask ==
    /\ \/ mountEffects
       \/ persistLoaded
       \/ \E c \in AmountKeys : typeAmount(c)
       \/ eraseAmount
       \/ \E raw \in RawAmounts : handleAmountChange(raw)
    /\ lastOp' = "none"
    /\ UNCHANGED storageFails

\* src/App.tsx with the amount field only
SpecMask == InitForm /\ [][NextMask]_vars

(***************************************************************************)
(* Month navigation of src/App.tsx on any day: currentMonth starts as      *)
(* new Date(), the day the app is opened, which may be any day of a month. *)
(***************************************************************************)
\* the days the app may be opened on: those of the months within MaxShift
\* of the month of Today
OpeningDays ==
    {date \in [y : {Today.y - 1, Today.y}, m : 0..11, d : 1..31] :
        /\ Abs(MonthIndex(date) - MonthIndex(Today)) <= MaxShift
        /\ date.d <= DaysInMonth(date.y, date.m)}

\* the state after construction of src/App.tsx opened on one of days, with
\* one of stores under the storage key
InitAppOn(days, stores) ==
    /\ variant = "app"
    /\ phase = "init"
    /\ now = 0
    /\ entries = <<>>
    /\ description = <<>>
    /\ amount = <<>>
    /\ type = "expense"
    /\ category = DEFAULT_EXPENSE_CATEGORY
    /\ subcategory = ""
    /\ paymentMethod = ""
    /\ receivingMethod = ""
    /\ editingId = Null
    /\ errorMessage = NoMessage
    /\ currentMonth \in days
    /\ storage \in stores
    /\ pending = <<>>
    /\ lastOp = "none"
    /\ storageFails = FALSE

InitMonth == InitAppOn(OpeningDays, {Absent, Stored(<<StoredAluguel>>)})

NextMonth ==
    /\ \/ mountEffects
       \/ persistLoaded
       \/ \E delta \in {-1, 1} : changeMonth(delta)
    /\ lastOp' = "none"
    /\ UNCHANGED storageFails

\* src/App.tsx opened on any day, with the month arrows only
SpecMonth == InitMonth /\ [][NextMonth]_vars

(***************************************************************************)
(* Editing what was loaded: src/App.tsx started on a key written by        *)
(* another version of the app or imported, with the edit and save buttons  *)
(* only (no field of the form is changed by hand).                         *)
(***************************************************************************)
\* an income of this month whose category is not in incomeCategories and
\* whose amount has three decimals
StoredImported ==
    [id |-> 2, description |-> JStr(<<"B", "o", "n", "u", "s">>),
     amount |-> JNum(Frac(1234567, 1000)),
     type |-> "income", category |-> "Extra", subcategory |-> Undefined,
     paymentMethod |-> Undefined, receivingMethod |-> "Pix",
     createdAt |-> JDate([y |-> Today.y, m |-> Today.m, d |-> Today.d - 5])]

\* an expense of this month written by another version of the app: its
\* category is not a key of expenseCategories, and it has a subcategory
StoredRetired ==
    [id |-> 3, description |-> JStr(Uber), amount |-> JNum(Int2Num(50)),
     type |-> "expense", category |-> "Viagens", subcategory |-> "Hotel",
     paymentMethod |-> "Pix", receivingMethod |-> Undefined,
     createdAt |-> JDate([y |-> Today.y, m |-> Today.m, d |-> Today.d - 3])]

InitEdit ==
    InitAppOn({Today}, {Stored(<<StoredAluguel>>), Stored(<<StoredImported>>),
                        Stored(<<StoredAluguel, StoredImported>>),
                        Stored(<<StoredRetired>>)})

NextEdit ==
    /\ \/ /\ \/ mountEffects
             \/ persistLoaded
             \/ \E e \in Range(entries) : handleEditStart(e)
             \/ \E delta \in {-1, 1} : changeMonth(delta)
             \/ Tick
          /\ lastOp' = "none"
       \/ handleSave
    /\ UNCHANGED storageFails

\* src/App.tsx with the edit and save buttons
SpecEdit == InitEdit /\ [][NextEdit]_vars

(***************************************************************************)
(* The next session: the app is closed when the load and every write have  *)
(* completed, and started again; the storage key keeps what it holds, the   *)
(* component starts from its initial state.                                 *)
(***************************************************************************)
restart ==
    /\ variant \in {"app", "p000", "p002"}
    /\ phase = "ready" /\ pending = <<>>
    /\ phase' = (IF variant = "app" THEN "init" ELSE "loading")
    /\ entries' = <<>>
    /\ description' = <<>>
    /\ amount' = <<>>
    /\ type' = (IF variant = "p002" THEN "despesa" ELSE "expense")
    /\ category' = (IF variant = "app" THEN DEFAULT_EXPENSE_CATEGORY ELSE "Alimentacao")
    /\ subcategory' = ""
    /\ paymentMethod' = ""
    /\ receivingMethod' = ""
    /\ editingId' = Null
    /\ errorMessage' = NoMessage
    /\ currentMonth' = Today
    /\ UNCHANGED <<variant, now, storage, pending>>

InitReload == InitOf("app") \/ InitOf("p000") \/ InitOf("p002")

NextReload ==
    \/ variant = "app" /\ NextApp
    \/ variant = "p000" /\ NextAsync
    \/ variant = "p002" /\ NextSalvar
    \/ restart /\ lastOp' = "none" /\ UNCHANGED storageFails

\* the components that persist, over several sessions
SpecReload == InitReload /\ [][NextReload]_vars

(***************************************************************************)
(* Writes that fail: from some moment on the storage rejects every write    *)
(* (QuotaExceededError of localStorage, a rejected AsyncStorage promise).   *)
(***************************************************************************)
storageBreaks ==
    /\ ~storageFails
    /\ storageFails' = TRUE
    /\ UNCHANGED <<variant, phase, now, entries, formVars, errorMessage,
                   currentMonth, storage, pending>>

NextFailing ==
    \/ variant = "app" /\ NextApp
    \/ variant = "p000" /\ NextAsync
    \/ variant = "p002" /\ NextSalvar
    \/ storageBreaks /\ lastOp' = "none"

InitFailing ==
    \/ InitOf("app") /\ storage = Absent
    \/ InitOf("p000")
    \/ InitOf("p002")

\* the components that persist, with a storage that may start to fail
SpecFailing == InitFailing /\ [][NextFailing]_vars

(***************************************************************************)
(* The behaviour the specification describes, stated without the handlers: *)
(* the fields of an entry of any component, the number a locale-formatted  *)
(* amount string denotes, the four validation rules.                       *)
(***************************************************************************)
AmountOf(e) == IF variant = "p002" THEN e.valor ELSE e.amount

IsIncome(e) == IF variant = "p002" THEN e.tipo = "receita" ELSE e.type = "income"

DateOf(e) ==
    IF variant \in {"app", "p000"} THEN e.createdAt
    ELSE IF variant = "p002" THEN e.data
    ELSE e.date

IdsOf(es) == {es[i].id : i \in 1..Len(es)}

CommaAt(s) == {i \in 1..Len(s) : s[i] = ","}

IntegerPart(s) ==
    IF CommaAt(s) = {} THEN s
    ELSE SubSeq(s, 1, (CHOOSE i \in CommaAt(s) : TRUE) - 1)

FractionPart(s) ==
    IF CommaAt(s) = {} THEN <<>>
    ELSE SubSeq(s, (CHOOSE i \in CommaAt(s) : TRUE) + 1, Len(s))

\* digits, either ungrouped or in groups of three separated by "."
IsGroupedInteger(t) ==
    /\ t # <<>>
    /\ IF \A i \in 1..Len(t) : t[i] # "."
       THEN \A i \in 1..Len(t) : t[i] \in Digits
       ELSE /\ Len(t) % 4 # 0
            /\ \A i \in 1..Len(t) :
                  IF (Len(t) - i + 1) % 4 = 0 THEN t[i] = "." ELSE t[i] \in Digits

\* digits grouped with ".", optionally "," followed by decimals
IsLocaleNumber(s) ==
    /\ Cardinality(CommaAt(s)) <= 1
    /\ IsGroupedInteger(IntegerPart(s))
    /\ CommaAt(s) # {} =>
          /\ FractionPart(s) # <<>>
          /\ \A i \in 1..Len(FractionPart(s)) : FractionPart(s)[i] \in Digits

RECURSIVE PlaceValue(_)
PlaceValue(ds) ==
    IF ds = <<>> THEN 0
    ELSE 10 * PlaceValue(SubSeq(ds, 1, Len(ds) - 1)) + DigitVal(ds[Len(ds)])

\* the number a locale-formatted amount string denotes
LocaleValue(s) ==
    Frac(PlaceValue(SelectSeq(IntegerPart(s), LAMBDA c : c # ".") \o FractionPart(s)),
         Pow10(Len(FractionPart(s))))

\* the first of the four validation rules the form input fails
FirstFailingRule(desc, amt) ==
    IF trim(desc) = <<>> THEN "MissingDescription"
    ELSE IF trim(amt) = <<>> THEN "MissingAmount"
    ELSE IF ~IsLocaleNumber(trim(amt)) THEN "InvalidAmount"
    ELSE IF LeqZero(LocaleValue(trim(amt))) THEN "NonPositiveAmount"
    ELSE "Valid"

\* the kind of error a reported message stands for
ErrorKind(msg) ==
    IF msg = "Descricao obrigatoria" THEN "MissingDescription"
    ELSE IF msg = "Informe um valor" THEN "MissingAmount"
    ELSE IF msg = "Informe um valor maior que zero" THEN "NonPositiveAmount"
    ELSE "NoError"

\* the step is a run of a save handler (handleSave, handleAddTransaction,
\* handleAdd, salvar)
SaveRan == lastOp' \in {"rejected", "created", "updated"}

\* the entry a create-mode save added: salvar appends, the others prepend
Created(es) == IF variant = "p002" THEN es[Len(es)] ELSE es[1]

RECURSIVE SumOver(_, _)
\* the sum of the amounts of the entries of `es` at the indices `S`
SumOver(es, S) ==
    IF S = {} THEN Int2Num(0)
    ELSE LET i == CHOOSE k \in S : TRUE
         IN  Add(AmountOf(es[i]), SumOver(es, S \ {i}))

\* the entries a component's aggregate is computed over
Aggregated == IF variant = "app" THEN filteredEntries ELSE entries

IncomeAt(es) == {i \in 1..Len(es) : IsIncome(es[i])}

ExpenseAt(es) == {i \in 1..Len(es) : ~IsIncome(es[i])}

\* the aggregate a component displays
Reported ==
    IF variant = "app"
    THEN [income |-> totalIncome, expense |-> totalExpense, balance |-> balance,
          hasAverage |-> TRUE, average |-> averageExpense]
    ELSE IF variant = "p000"
    THEN [income |-> totals.income, expense |-> totals.expenses,
          balance |-> totals.balance, hasAverage |-> FALSE, average |-> Int2Num(0)]
    ELSE IF variant = "p001"
    THEN [income |-> summary_p001.income, expense |-> summary_p001.expense,
          balance |-> summary_p001.balance, hasAverage |-> FALSE,
          average |-> Int2Num(0)]
    ELSE IF variant = "p003"
    THEN [income |-> summary_p003.income, expense |-> summary_p003.expense,
          balance |-> summary_p003.balance, hasAverage |-> TRUE,
          average |-> summary_p003.averageExpense]
    ELSE [income |-> receitas, expense |-> despesas, balance |-> saldo,
          hasAverage |-> FALSE, average |-> Int2Num(0)]

\* the month the aggregate is about
ReferenceMonth == IF variant = "app" THEN currentMonth ELSE Today

InReferenceMonth(e) ==
    DateOf(e).m = ReferenceMonth.m /\ DateOf(e).y = ReferenceMonth.y

(***************************************************************************)
(* C1.  A create-mode save of a valid input yields the old sequence with   *)
(* exactly one new entry prepended, whose amount is the parsed value and   *)
(* whose id differs from the id of every entry already in the sequence,    *)
(* also when two adds read the same clock value.                           *)
(***************************************************************************)
C1_CreatePrependsFreshId ==
    [][ lastOp' = "created" =>
          /\ entries' = <<entries'[1]>> \o entries
          /\ AmountOf(entries'[1]) = LocaleValue(trim(amount))
          /\ entries'[1].id \notin IdsOf(entries) ]_vars

(***************************************************************************)
(* C2.  A save whose input fails one of the four validation rules leaves   *)
(* the entry sequence unchanged, in create mode and in edit mode.          *)
(***************************************************************************)
C2_InvalidInputKeepsEntries ==
    [][ (SaveRan /\ FirstFailingRule(description, amount) # "Valid")
            => entries' = entries ]_vars

(***************************************************************************)
(* C3.  The aggregate: totalIncome is the sum of the income amounts,       *)
(* totalExpense the sum of the expense amounts, balance their difference,  *)
(* averageExpense is totalExpense divided by the number of expense entries *)
(* (0 when there is none); one income of 8500 and one expense of 2200 give *)
(* 8500, 2200, 6300 and 2200.                                              *)
(***************************************************************************)
C3_AggregateSums ==
    LET es     == Aggregated
        income == SumOver(es, IncomeAt(es))
        expense == SumOver(es, ExpenseAt(es))
        count  == Cardinality(ExpenseAt(es))
    IN  /\ Reported.income = income
        /\ Reported.expense = expense
        /\ Reported.balance = Sub(income, expense)
        /\ Reported.hasAverage =>
              IF count = 0 THEN Reported.average = Int2Num(0)
              ELSE \/ isNaN(expense) /\ isNaN(Reported.average)
                   \/ /\ ~isNaN(expense) /\ ~isNaN(Reported.average)
                      /\ Reported.average.n * expense.d * count
                            = expense.n * Reported.average.d
        /\ (/\ Len(es) = 2
            /\ Cardinality(IncomeAt(es)) = 1
            /\ \A i \in IncomeAt(es) : AmountOf(es[i]) = Int2Num(8500)
            /\ \A i \in ExpenseAt(es) : AmountOf(es[i]) = Int2Num(2200))
           => /\ Reported.income = Int2Num(8500)
              /\ Reported.expense = Int2Num(2200)
              /\ Reported.balance = Int2Num(6300)
              /\ Reported.hasAverage => Reported.average = Int2Num(2200)

\* the month of the App holds one income of 8500 and one expense of 2200
C3_Witness ==
    /\ variant = "app"
    /\ Len(filteredEntries) = 2
    /\ Len(incomes) = 1 /\ incomes[1].amount = Int2Num(8500)
    /\ Len(expenses) = 1 /\ expenses[1].amount = Int2Num(2200)
    /\ balance = Int2Num(6300)
    /\ averageExpense = Int2Num(2200)

(***************************************************************************)
(* C4.  The aggregate counts exactly the entries of the reference month:   *)
(* an entry of another month, or of the same month of another year,        *)
(* contributes to none of the totals.                                      *)
(***************************************************************************)
C4_AggregateOfReferenceMonth ==
    LET inMonth == {i \in 1..Len(entries) : InReferenceMonth(entries[i])}
        income  == SumOver(entries, inMonth \cap IncomeAt(entries))
        expense == SumOver(entries, inMonth \cap ExpenseAt(entries))
    IN  /\ Reported.income = income
        /\ Reported.expense = expense
        /\ Reported.balance = Sub(income, expense)

(***************************************************************************)
(* C5.  A successful save in edit mode replaces the entry of the edit      *)
(* target in place, keeps its id and its original createdAt, and sets      *)
(* description, amount, type, category, subcategory and payment/receiving  *)
(* method from the form input; the other entries are left as they are.     *)
(***************************************************************************)
C5_EditReplacesInPlace ==
    [][ lastOp' = "updated" =>
          /\ Len(entries') = Len(entries)
          /\ \A i \in 1..Len(entries) :
                IF entries[i].id # editingId THEN entries'[i] = entries[i]
                ELSE /\ entries'[i].id = entries[i].id
                     /\ entries'[i].createdAt = entries[i].createdAt
                     /\ entries'[i].description = trim(description)
                     /\ entries'[i].amount = LocaleValue(trim(amount))
                     /\ entries'[i].type = type
                     /\ entries'[i].category = category
                     /\ entries'[i].subcategory =
                           (IF subcategory = "" THEN Undefined ELSE subcategory)
                     /\ entries'[i].paymentMethod =
                           (IF type = "expense" /\ paymentMethod # ""
                            THEN paymentMethod ELSE Undefined)
                     /\ entries'[i].receivingMethod =
                           (IF type = "income" /\ receivingMethod # ""
                            THEN receivingMethod ELSE Undefined) ]_vars

\* the stored expense was edited: it has its id and its stored date, and the
\* description and amount of the form
C5_Witness ==
    /\ lastOp = "updated"
    /\ \E i \in 1..Len(entries) :
          /\ entries[i].id = StoredAluguel.id
          /\ entries[i].createdAt = StoredAluguel.createdAt.v
          /\ entries[i].createdAt # Today
          /\ entries[i].description = Uber
          /\ entries[i].amount = Int2Num(8500)
          /\ entries[i].type = "income"

(***************************************************************************)
(* C6.  A save in edit mode whose target id matches no entry fails with a  *)
(* reported error; it is never ignored with the form reset as if the save  *)
(* had succeeded.                                                          *)
(***************************************************************************)
C6_MissingTargetIsReported ==
    [][ (SaveRan /\ editingId # Null /\ editingId \notin IdsOf(entries)
           /\ FirstFailingRule(description, amount) = "Valid")
          => /\ lastOp' = "rejected"
             /\ errorMessage' # NoMessage
             /\ editingId' = editingId ]_vars

(***************************************************************************)
(* C7.  Every entry of the in-memory sequence has amount > 0 in every      *)
(* reachable state.                                                        *)
(***************************************************************************)
C7_AmountsPositive ==
    \A i \in 1..Len(entries) : GtZero(AmountOf(entries[i]))

(***************************************************************************)
(* C8.  A rejected save reports the kind of the first failing rule, in the *)
(* order description-empty, amount-empty, amount-not-a-number,             *)
(* amount-not-positive.                                                    *)
(***************************************************************************)
C8_FirstFailingRuleReported ==
    [][ (SaveRan /\ FirstFailingRule(description, amount) # "Valid")
          => ErrorKind(errorMessage') = FirstFailingRule(description, amount) ]_vars

(***************************************************************************)
(* C9.  For every locale-formatted amount string the amount a save stores  *)
(* is the number the string denotes: "8.500,00" is stored as 8500.         *)
(***************************************************************************)
C9_LocaleAmountStored ==
    [][ (lastOp' = "created" /\ IsLocaleNumber(trim(amount)))
          => AmountOf(Created(entries')) = LocaleValue(trim(amount)) ]_vars

(***************************************************************************)
(* C10.  A confirmed delete removes every entry with the id and keeps the  *)
(* others in their order; removing the same id again, the id being absent  *)
(* by then, changes nothing.                                               *)
(***************************************************************************)
C10_RemoveIdempotent ==
    [][ lastOp' \in {"deleted", "unprompted"} =>
          \E id \in IdsOf(entries) :
             /\ id \notin IdsOf(entries')
             /\ \E keep \in SUBSET (1..Len(entries)) :
                   /\ keep = {i \in 1..Len(entries) : entries[i].id # id}
                   /\ Len(entries') = Cardinality(keep)
                   /\ \A k \in 1..Len(entries') :
                         entries'[k] = entries[CHOOSE i \in keep :
                               Cardinality({j \in keep : j <= i}) = k]
             /\ removeEntry(entries', id) = entries'
             /\ removeEntry(removeEntry(entries, id), id) = removeEntry(entries, id) ]_vars

\* an entry was deleted and another one is still there
C10_Witness ==
    /\ lastOp = "deleted"
    /\ Len(entries) = 1

(***************************************************************************)
(* C11.  A delete whose confirmation prompt is declined leaves the whole   *)
(* state unchanged: the entry sequence, the persisted collection, the form *)
(* fields and the edit target; an entry leaves the sequence only in a      *)
(* delete whose prompt was answered yes.                                   *)
(***************************************************************************)
EntryLeaves == Len(entries') < Len(entries) \/ IdsOf(entries) \ IdsOf(entries') # {}

DeclinedChangesNothing ==
    lastOp' = "declined" =>
        UNCHANGED <<entries, storage, pending, formVars, errorMessage,
                    currentMonth, phase>>

C11_RemovedOnlyAfterYes ==
    [][ DeclinedChangesNothing /\ (EntryLeaves => lastOp' = "deleted") ]_vars

\* C11 as the code has it: a declined delete leaves the whole state
\* unchanged; an entry leaves the sequence only in a delete whose prompt was
\* answered yes or could not be shown.
C11_DeclinedDeleteChangesNothing ==
    [][ /\ DeclinedChangesNothing
        /\ EntryLeaves => lastOp' \in {"deleted", "unprompted"}
        /\ lastOp' \in {"deleted", "unprompted"} => EntryLeaves ]_vars

\* a delete was declined while an entry was being edited
C11_Witness ==
    /\ lastOp = "declined"
    /\ editingId # Null
    /\ editingId \in IdsOf(entries)
    /\ description # <<>>

(***************************************************************************)
(* C12.  Once the startup load and every scheduled save have completed,    *)
(* the persisted collection is the current in-memory sequence (the same    *)
(* entries in the same order): no mutation is left unpersisted.            *)
(***************************************************************************)
\* the startup load and every write issued so far have completed
Quiescent == phase = "ready" /\ pending = <<>>

\* what a completed save of the in-memory sequence leaves under the key
Serialised ==
    IF variant = "app" THEN stringify(entries)
    ELSE IF variant = "p002" THEN stringifyLancamentos(entries)
    ELSE stringifyTransactions(entries)

\* the collection under the key: a key that was never written holds none
Persisted == IF storage.kind = "absent" THEN Stored(<<>>) ELSE storage

C12_PersistedIsInMemory ==
    (variant \in {"app", "p000", "p002"} /\ Quiescent) => Persisted = Serialised

(***************************************************************************)
(* C13.  No save issued before the startup load has completed overwrites   *)
(* previously persisted data: while the load has not completed, no write   *)
(* is issued, and none completes, that leaves the key without a record it  *)
(* held.                                                                   *)
(***************************************************************************)
\* the collection `data` holds every record the key holds now
KeepsPersisted(data) == Range(storage.items) \subseteq Range(data.items)

C13_NoSaveBeforeLoad ==
    [][ phase # "ready" =>
          /\ (storage' # storage /\ storage'.kind = "array") => KeepsPersisted(storage')
          /\ \A k \in 1..Len(pending') :
                (k > Len(pending) /\ pending'[k].op = "setItem")
                    => KeepsPersisted(pending'[k].data) ]_vars

(***************************************************************************)
(* C14.  An entry added while the startup load is in flight is not lost:   *)
(* when the load completes, the in-memory sequence holds every entry that  *)
(* was added before, together with every loaded entry.                     *)
(***************************************************************************)
C14_AddBeforeLoadIsKept ==
    [][ (phase = "loading" /\ phase' = "ready") =>
          /\ IdsOf(entries) \subseteq IdsOf(entries')
          /\ IdsOf(storage.items) \subseteq IdsOf(entries') ]_vars

(***************************************************************************)
(* C15.  Round trip: a well-formed entry sequence that is saved and then   *)
(* loaded at the next startup comes back as the same sequence (the same    *)
(* entries with the same fields in the same order).                        *)
(***************************************************************************)
\* what the startup load makes of a stored collection
LoadOf(data) ==
    IF variant = "app" THEN loadEntries(data.items)
    ELSE IF variant = "p002" THEN parseLancamentos(data.items)
    ELSE parseTransactions(data.items)

DescriptionOf(e) == IF variant = "p002" THEN e.descricao ELSE e.description

\* an entry in memory with a description and a positive amount
WellFormed(e) ==
    /\ DescriptionOf(e) # <<>>
    /\ ~isNull(AmountOf(e))
    /\ GtZero(AmountOf(e))

\* a stored record with a description, a positive amount and, where the
\* component keeps one in a typed field, a date
WellFormedStored(item) ==
    IF variant = "app"
    THEN /\ item.description.t = "string" /\ item.description.v # <<>>
         /\ item.amount.t = "number" /\ GtZero(item.amount.v)
         /\ item.createdAt.t = "string"
    ELSE /\ DescriptionOf(item) # <<>>
         /\ AmountOf(item).t = "number" /\ GtZero(AmountOf(item).v)

\* the step in which the startup load hands its result to the component
LoadCompletes == phase \in {"init", "loading"} /\ phase' # phase

C15_RoundTrip ==
    [][ /\ (Quiescent /\ \A i \in 1..Len(entries) : WellFormed(entries[i]))
              => LoadOf(Serialised) = entries
        /\ (/\ LoadCompletes
            /\ storage.kind = "array"
            /\ \A i \in 1..Len(storage.items) : WellFormedStored(storage.items[i]))
              => /\ Serialised' = storage
                 /\ entries' = LoadOf(storage) ]_vars

\* the App was started again and has loaded an entry that an earlier
\* session created and saved
C15_Witness ==
    /\ variant = "app"
    /\ phase = "loaded"
    /\ \E i \in 1..Len(entries) :
          /\ entries[i].id >= ClockBase
          /\ entries[i].amount = Int2Num(8500)
          /\ entries[i].description = Uber

(***************************************************************************)
(* C16.  On load, each stored record that fails the shape validation       *)
(* (amount not a number, description absent) is dropped and every other    *)
(* record is kept, in the stored order.                                    *)
(***************************************************************************)
\* the stored record has a number as amount and a description
ShapeOk(item) ==
    IF variant = "app"
    THEN item.amount.t = "number" /\ item.description.t = "string"
         /\ item.description.v # <<>>
    ELSE AmountOf(item).t = "number" /\ DescriptionOf(item) # <<>>

IdSeq(es) == [i \in 1..Len(es) |-> es[i].id]

C16_MalformedRecordsDropped ==
    [][ (LoadCompletes /\ storage.kind = "array")
          => IdSeq(entries') = IdSeq(SelectSeq(storage.items, ShapeOk)) ]_vars

\* the mutation a handler has just made is in the sequence in memory
EffectInMemory ==
    /\ lastOp' = "created" =>
          /\ Len(entries') = Len(entries) + 1
          /\ \A i \in 1..Len(entries) : entries[i] \in Range(entries')
          /\ IdsOf(entries') = IdsOf(entries) \cup {DateNow}
    /\ (lastOp' = "updated" /\ editingId \in IdsOf(entries)) =>
          /\ IdSeq(entries') = IdSeq(entries)
          /\ \E i \in 1..Len(entries') :
                /\ entries'[i].id = editingId
                /\ entries'[i].description = trim(description)
    /\ lastOp' \in {"deleted", "unprompted"} =>
          /\ Len(entries') < Len(entries)
          /\ \E id \in IdsOf(entries) :
                IdSeq(entries') = SelectSeq(IdSeq(entries), LAMBDA k : k # id)

\* a write completes or is attempted, and the key keeps what it held
WriteFailed == storageFails /\ storage' = storage /\ Len(pending') < Len(pending)

\* C17: while the storage rejects writes, an add, update or remove still
\* takes effect on the sequence in memory, and a write that completes with
\* a failure changes neither the sequence nor the key
C17_FailingSaveKeepsMutation ==
    [][ storageFails =>
           /\ EffectInMemory
           /\ storage' = storage
           /\ WriteFailed => entries' = entries ]_vars

\* two entries were added after the storage began to fail: none was written
C17_Witness ==
    /\ storageFails
    /\ storage.kind = "absent"
    /\ pending = <<>>
    /\ Len(entries) = 2
    /\ lastOp = "created"

CreateMode == editingId = Null

EditMode == editingId # Null /\ editingId \in Nat

FieldsCleared ==
    /\ description = <<>> /\ amount = <<>>
    /\ type = "expense" /\ category = DEFAULT_EXPENSE_CATEGORY
    /\ subcategory = "" /\ paymentMethod = "" /\ receivingMethod = ""

\* C18: the form is in create mode (no target id) or in edit mode (a target
\* id), never both; a save that is accepted leaves the form in create mode
\* with its fields cleared, a save that validation rejects leaves the mode,
\* the target id and the fields as they were
C18_FormMode ==
    [][ /\ (CreateMode \/ EditMode) /\ ~(CreateMode /\ EditMode)
        /\ lastOp' \in {"created", "updated"} => (CreateMode /\ FieldsCleared)'
        /\ lastOp' = "rejected" => UNCHANGED formVars ]_vars

\* an edit was saved: the form is back in create mode; the previous save of
\* this form was made with a payment method and a subcategory chosen
C18_Witness ==
    /\ lastOp = "updated"
    /\ CreateMode /\ FieldsCleared
    /\ \E i \in 1..Len(entries) : entries[i].subcategory # ""

RECURSIVE IsSubsequence(_, _)
IsSubsequence(s, t) ==
    IF s = <<>> THEN TRUE
    ELSE IF t = <<>> THEN FALSE
    ELSE IF Head(s) = Head(t) THEN IsSubsequence(Tail(s), Tail(t))
    ELSE IsSubsequence(s, Tail(t))

\* C19: an add puts the new entry at the head and leaves the entries that
\* were there behind it in their order, so that a later add is nearer the
\* head; an update or a remove keeps the remaining entries in their order
C19_NewestFirst ==
    [][ /\ lastOp' = "created" =>
              /\ entries' # <<>>
              /\ Tail(entries') = entries
        /\ lastOp' \in {"updated", "deleted", "unprompted"} =>
              IsSubsequence(IdSeq(entries'), IdSeq(entries)) ]_vars

\* the raw texts the amount field can hand to the mask when it shows text
RawTextsAt(text) ==
    RawAmounts
    \cup (IF text = <<>> THEN {} ELSE {SubSeq(text, 1, Len(text) - 1)})
    \cup (IF Len(onlyDigits(text)) < MaxDigits
          THEN {Append(text, c) : c \in AmountKeys} ELSE {})

\* shown is the digits of raw read as cents: two fraction digits after the
\* only ",", the integer part without leading zero and in groups of three
\* separated by "."; no text when raw has no digit
Masks(raw, shown) ==
    LET ds == SelectSeq(raw, LAMBDA c : c \in Digits)
    IN  IF ds = <<>> THEN shown = <<>>
        ELSE /\ Cardinality(CommaAt(shown)) = 1
             /\ Len(FractionPart(shown)) = 2
             /\ IsLocaleNumber(shown)
             /\ Len(IntegerPart(shown)) > 3 =>
                   \E i \in 1..Len(shown) : shown[i] = "."
             /\ Len(IntegerPart(shown)) > 1 => Head(shown) # "0"
             /\ PlaceValue(SelectSeq(shown, LAMBDA c : c \in Digits)) = PlaceValue(ds)

\* C20: the masked amount is determined by the raw text alone: its digits
\* read as cents, written with two fraction digits, "." between groups of
\* three and "," before the fraction ("850000" gives "8.500,00"), and the
\* empty text when the raw text has no digit
C20_MaskIsTransformOfRaw ==
    [][ /\ \A raw \in RawTextsAt(amount) : Masks(raw, maskAmount(raw))
        /\ amount' # amount => \E raw \in RawTextsAt(amount) : Masks(raw, amount')
        /\ maskAmount(<<"8", "5", "0", "0", "0", "0">>)
              = <<"8", ".", "5", "0", "0", ",", "0", "0">> ]_vars

\* the field shows the mask of "850000"
C20_Witness ==
    /\ amount = <<"8", ".", "5", "0", "0", ",", "0", "0">>
    /\ description = <<>>
    /\ phase = "ready"

\* C21: a step of changeMonth moves the reference date to the month that
\* is one month after or one month before the month it was in, with the
\* year carried, whatever the day of the month of the reference date
C21_MonthAdvancesByDelta ==
    [][ currentMonth' # currentMonth =>
           \E delta \in {-1, 1} :
              MonthIndex(currentMonth') = MonthIndex(currentMonth) + delta ]_vars

\* C22: a step that changes the reference month leaves the sequence in
\* memory, the persisted collection, the form fields and the edit target
\* as they were
C22_MonthChangeKeepsTheRest ==
    [][ currentMonth' # currentMonth =>
           UNCHANGED <<entries, storage, pending, formVars>> ]_vars

\* the month was changed while an entry was being edited
C22_Witness ==
    /\ MonthIndex(currentMonth) # MonthIndex(Today)
    /\ editingId # Null
    /\ editingId \in IdsOf(entries)
    /\ description # <<>>
    /\ storage.kind = "array" /\ storage.items # <<>>

\* C23: a delete requested where no prompt can be shown goes on without
\* confirmation: an entry the list shows has its id removed from the
\* sequence, and the entries with another id stay as they are
C23_DeleteWithoutPrompt ==
    [][ lastOp' = "unprompted" =>
           \E i \in 1..Len(filteredEntries) :
              LET id == filteredEntries[i].id
              IN  /\ id \notin IdsOf(entries')
                  /\ entries' = SelectSeq(entries, LAMBDA e : e.id # id) ]_vars

\* an entry of the session was deleted without a prompt, another is left
C23_Witness ==
    /\ lastOp = "unprompted"
    /\ Len(entries) = 1
    /\ storage = stringify(entries)

\* C24: while the form is in edit mode the edit target is the id of an
\* entry of the sequence
C24_EditTargetIsPresent == editingId # Null => editingId \in IdsOf(entries)

\* the positions at which two sequences of the same length differ
ChangedAt(s, t) == {i \in 1..Len(s) : s[i] # t[i]}

\* C25: an update keeps the length of the sequence, changes at most one
\* entry and no entry with an id other than the edit target; a remove that
\* was confirmed for an id in the sequence shortens the sequence by exactly
\* one and keeps the entries with another id, in their order
C25_OnlyTargetTouched ==
    [][ /\ lastOp' = "updated" =>
              /\ Len(entries') = Len(entries)
              /\ Cardinality(ChangedAt(entries, entries')) <= 1
              /\ \A i \in ChangedAt(entries, entries') : entries[i].id = editingId
        /\ lastOp' = "deleted" =>
              /\ Len(entries') = Len(entries) - 1
              /\ \E id \in IdsOf(entries) :
                    entries' = SelectSeq(entries, LAMBDA e : e.id # id) ]_vars

\* C26: a save made in edit mode with the form as the start of the edit
\* filled it, for a target that is in the sequence, leaves the sequence as
\* it was (under SpecEdit no step changes a field between the two)
C26_EditThenSaveChangesNothing ==
    [][ (lastOp' = "updated" /\ editingId \in IdsOf(entries)) =>
           entries' = entries ]_vars

\* C27: every save of part_002 that is accepted adds one entry behind the
\* entries that were there, no step takes an entry out of the sequence, and
\* when the last write in flight completes the key holds the sequence
C27_SavesAccumulate ==
    [][ variant = "p002" =>
           /\ lastOp' = "created" =>
                 /\ Len(entries') = Len(entries) + 1
                 /\ SubSeq(entries', 1, Len(entries)) = entries
           /\ IdsOf(entries) \subseteq IdsOf(entries')
           /\ (Len(pending') < Len(pending) /\ pending' = <<>> /\ phase = "ready") =>
                 storage' = stringifyLancamentos(entries') ]_vars

\* the months the month arrows can be on
Navigable(date) == Abs(MonthIndex(date) - MonthIndex(Today)) <= MaxShift

\* C28: from the reference date of any state, going one month forward and
\* one month back, or one month back and one month forward, ends in the
\* month and year of that reference date
C28_MonthChangeInvertible ==
    appReady =>
       \A delta \in {-1, 1} :
          LET there == shiftMonth(currentMonth, delta)
              back  == shiftMonth(there, -delta)
          IN  (Navigable(there) /\ Navigable(back)) =>
                 MonthIndex(back) = MonthIndex(currentMonth)

\* the number of cents the digits of a text denote
CentsOf(text) == PlaceValue(SelectSeq(text, LAMBDA c : c \in Digits))

\* what the save parser makes of a text the mask shows: the cents of the
\* text as an amount when they are positive, a rejection as non-positive
\* when they are zero
ParsedAsShown(shown) ==
    IF CentsOf(shown) > 0
    THEN /\ parseAmount(trim(shown)) = Frac(CentsOf(shown), 100)
         /\ validate(Uber, trim(shown)) = NoMessage
    ELSE validate(Uber, trim(shown)) = "Informe um valor maior que zero"

\* C29: the save handler reads the text the mask shows as the cents of the
\* raw input: the entry a save creates has amount cents / 100, a save of
\* the mask of an all-zero input is rejected as non-positive, and the
\* parser agrees with the mask on every raw text a changed field can hand
\* over next
C29_MaskAndParserAgree ==
    [][ /\ amount' # amount =>
              \A raw \in RawTextsAt(amount') :
                 maskAmount(raw) # <<>> => ParsedAsShown(maskAmount(raw))
        /\ lastOp' = "created" =>
              /\ CentsOf(amount) > 0
              /\ Head(entries').amount = Frac(CentsOf(amount), 100)
        /\ (lastOp' = "rejected" /\ trim(description) # <<>> /\ amount # <<>>) =>
              /\ CentsOf(amount) = 0
              /\ errorMessage' = "Informe um valor maior que zero" ]_vars

\* the mask of "850000" was saved as 8500
C29_Witness ==
    /\ lastOp = "created"
    /\ Head(entries).amount = Int2Num(8500)
    /\ Head(entries).id = DateNow

\* C30: in the form of an expense a subcategory that is chosen is one of
\* the subcategories of the chosen category, and the form of an income has
\* no subcategory
C30_SubcategoryOfCategory ==
    /\ (type = "expense" /\ subcategory # "") =>
          /\ category \in DOMAIN expenseCategories
          /\ subcategory \in Range(expenseCategories[category])
    /\ type = "income" => subcategory = ""

=============================================================================
